---- MODULE Spec2Model ----
(***************************************************************************)
(* Paired image / keypoint transforms of human36m/utils/data_transforms.py *)
(* (Compose, CropToTarget, Scale, RandomCrop, RandomHorizontalFlip).       *)
(*                                                                         *)
(* An image is its size (PIL's img.size) and whether its content is        *)
(* mirrored left-right: [w, h, mirror].  A keypoint set is a sequence of   *)
(* <<x, y>>; a coordinate is an exact rational <<n, d>> in lowest terms    *)
(* (the target is a float array: every transform updates it with in-place  *)
(* float arithmetic).  One behaviour is one call of Compose.__call__ on a  *)
(* caller-supplied pair.                                                   *)
(***************************************************************************)
EXTENDS Integers, Sequences, FiniteSets, TLC

VARIABLES transforms, img0, target0, callerImg, callerTarget,
          img, target, pc, status, calls, ret

vars == <<transforms, img0, target0, callerImg, callerTarget,
          img, target, pc, status, calls, ret>>

\* ---------------------------------------------------------------- bounds
MaxW == 2
MaxH == 1
Grid == 2
MaxPts == 2
MaxLen == 2
MaxPad == 1
MaxSize == 2

\* ------------------------------------------------------------ arithmetic
Abs(n) == IF n < 0 THEN -n ELSE n

RECURSIVE GCD(_, _)
GCD(a, b) == IF b = 0 THEN a ELSE GCD(b, a % b)

Norm(n, d) == LET g == GCD(Abs(n), d) IN <<n \div g, d \div g>>

RInt(k) == <<k, 1>>

RAdd(a, b) == Norm(a[1] * b[2] + b[1] * a[2], a[2] * b[2])

RSub(a, b) == Norm(a[1] * b[2] - b[1] * a[2], a[2] * b[2])

RMul(a, b) == Norm(a[1] * b[1], a[2] * b[2])

RLt(a, b) == a[1] * b[2] < b[1] * a[2]

RLe(a, b) == a[1] * b[2] <= b[1] * a[2]

RMin(a, b) == IF RLt(b, a) THEN b ELSE a

RMax(a, b) == IF RLt(a, b) THEN b ELSE a

\* int(round(v)) as Image.crop applies it to each edge of its box:
\* round half to even.
Round(a) ==
    LET q == a[1] \div a[2]
        r == a[1] % a[2]
    IN  IF 2 * r < a[2] THEN q
        ELSE IF 2 * r > a[2] THEN q + 1
        ELSE IF q % 2 = 0 THEN q ELSE q + 1

Zero == RInt(0)

\* ----------------------------------------------------------- numpy steps
\* target[:, 0] -= dx ; target[:, 1] -= dy
Rebase(tgt, dx, dy) ==
    [i \in 1..Len(tgt) |-> <<RSub(tgt[i][1], dx), RSub(tgt[i][2], dy)>>]

\* target[target < 0] = 0
ClampNegative(tgt) ==
    [i \in 1..Len(tgt) |->
        <<IF RLt(tgt[i][1], Zero) THEN Zero ELSE tgt[i][1],
          IF RLt(tgt[i][2], Zero) THEN Zero ELSE tgt[i][2]>>]

\* target[:, 0] = np.where(target[:, 0] > bx, 0, target[:, 0]), and the same
\* for column 1 against by.
ResetAbove(tgt, bx, by) ==
    [i \in 1..Len(tgt) |->
        <<IF RLt(bx, tgt[i][1]) THEN Zero ELSE tgt[i][1],
          IF RLt(by, tgt[i][2]) THEN Zero ELSE tgt[i][2]>>]

RECURSIVE FoldMin(_, _, _)
FoldMin(tgt, c, i) ==
    IF i = 1 THEN tgt[1][c] ELSE RMin(FoldMin(tgt, c, i - 1), tgt[i][c])

RECURSIVE FoldMax(_, _, _)
FoldMax(tgt, c, i) ==
    IF i = 1 THEN tgt[1][c] ELSE RMax(FoldMax(tgt, c, i - 1), tgt[i][c])

\* np.min(target, axis=0) / np.max(target, axis=0), for a non-empty target
MinCoords(tgt) == <<FoldMin(tgt, 1, Len(tgt)), FoldMin(tgt, 2, Len(tgt))>>

MaxCoords(tgt) == <<FoldMax(tgt, 1, Len(tgt)), FoldMax(tgt, 2, Len(tgt))>>

\* ------------------------------------------------------ transform results
ZeroBox == <<Zero, Zero, Zero, Zero>>

\* What one call t(img, target) did: the pair it returned, the branch it
\* took, the box it computed, its random draws and how far it moved the
\* image content (in pixels, along x and y).
Result(branch, im, tgt, box, rnd, shift) ==
    [branch |-> branch, img |-> im, target |-> tgt, box |-> box,
     rnd |-> rnd, shift |-> shift]

Raise(im, tgt) == Result("raise", im, tgt, ZeroBox, <<0, 0>>, <<0, 0>>)

\* ---------------------------------------------------------- CropToTarget
PaddingFitsLowEndIgnored(minc, maxc, p, w, h) ==
    ~(RLt(RInt(w), RAdd(maxc[1], RInt(p))) \/
      RLt(RInt(h), RAdd(maxc[2], RInt(p))))

PaddingFits(minc, maxc, p, w, h) ==
    ~(RLt(RSub(minc[1], RInt(p)), Zero) \/
      RLt(RSub(minc[2], RInt(p)), Zero) \/
      RLt(RInt(w), RAdd(maxc[1], RInt(p))) \/
      RLt(RInt(h), RAdd(maxc[2], RInt(p))))

\* <<min_coords[0], min_coords[1], max_coords[0], max_coords[1]>> after the
\* "add padding" step
CropBox(tgt, p, w, h) ==
    LET minc == MinCoords(tgt)
        maxc == MaxCoords(tgt)
    IN  IF PaddingFits(minc, maxc, p, w, h)
        THEN <<RSub(minc[1], RInt(p)), RSub(minc[2], RInt(p)),
               RAdd(maxc[1], RInt(p)), RAdd(maxc[2], RInt(p))>>
        ELSE <<minc[1], minc[2], maxc[1], maxc[2]>>

\* img.crop(box)
Crop(im, box) ==
    [w |-> Round(box[3]) - Round(box[1]), h |-> Round(box[4]) - Round(box[2]),
     mirror |-> im.mirror]

CropToTargetCall(t, im, tgt) ==
    IF Len(tgt) = 0 THEN Raise(im, tgt)
    ELSE
    LET box == CropBox(tgt, t.padding, im.w, im.h)
    IN  IF RInt(im.w) = box[3] /\ RInt(im.h) = box[4]
        THEN Result("noop", im, tgt, box, <<0, 0>>, <<0, 0>>)
        ELSE Result("crop", Crop(im, box),
                    ResetAbove(ClampNegative(Rebase(tgt, box[1], box[2])),
                               box[3], box[4]),
                    box, <<0, 0>>, <<-Round(box[1]), -Round(box[2])>>)

\* ----------------------------------------------------------------- Scale
\* img.resize((ow, oh), self.interpolation)
Resize(im, ow, oh) == [w |-> ow, h |-> oh, mirror |-> im.mirror]

\* target[:, 0] *= fx ; target[:, 1] *= fy
Rescale(tgt, fx, fy) ==
    [i \in 1..Len(tgt) |-> <<RMul(tgt[i][1], fx), RMul(tgt[i][2], fy)>>]

\* A division by a zero edge raises ZeroDivisionError; in the size-pair mode
\* column 0 is already rescaled when the division by h raises.
ScaleCall(t, im, tgt) ==
    LET w == im.w
        h == im.h
        s == t.size[1]
    IN  IF t.isint
        THEN IF (w <= h /\ w = s) \/ (h <= w /\ h = s)
             THEN Result("noop", im, tgt, ZeroBox, <<0, 0>>, <<0, 0>>)
             ELSE IF w < h
             THEN IF w = 0 THEN Raise(im, tgt)
                  ELSE
                  LET ow == s
                      oh == (s * h) \div w
                  IN  Result("resize", Resize(im, ow, oh),
                             Rescale(tgt, RInt(ow), RInt(oh)),
                             ZeroBox, <<0, 0>>, <<0, 0>>)
             ELSE IF h = 0 THEN Raise(im, tgt)
                  ELSE
                  LET oh == s
                      ow == (s * w) \div h
                  IN  Result("resize", Resize(im, ow, oh),
                             Rescale(tgt, RInt(ow), RInt(oh)),
                             ZeroBox, <<0, 0>>, <<0, 0>>)
        ELSE IF w = 0 THEN Raise(im, tgt)
        ELSE IF h = 0 THEN Raise(im, Rescale(tgt, Norm(t.size[1], w), RInt(1)))
        ELSE Result("resize", Resize(im, t.size[1], t.size[2]),
                    Rescale(tgt, Norm(t.size[1], w), Norm(t.size[2], h)),
                    ZeroBox, <<0, 0>>, <<0, 0>>)

\* ------------------------------------------------------------ RandomCrop
\* ImageOps.expand(img, border=padding, fill=0) when padding > 0
Expand(im, p) ==
    IF p > 0
    THEN [w |-> im.w + 2 * p, h |-> im.h + 2 * p, mirror |-> im.mirror]
    ELSE im

\* th, tw = self.size
RandomCropNoop(t, im) ==
    LET e == Expand(im, t.padding)
        th == t.size[1]
    IN  e.w = th /\ e.h = th

\* The values random.randint(0, w - tw) and random.randint(0, h - th) can
\* return; an empty range raises.
RandomCropDraws(t, im) ==
    LET e == Expand(im, t.padding)
        th == t.size[1]
        tw == t.size[2]
    IN  IF RandomCropNoop(t, im) \/ e.w - tw < 0 \/ e.h - th < 0
        THEN {<<0, 0>>}
        ELSE (0..(e.w - tw)) \X (0..(e.h - th))

RandomCropCall(t, im, tgt, x1, y1) ==
    LET p == IF t.padding > 0 THEN t.padding ELSE 0
        e == Expand(im, t.padding)
        th == t.size[1]
        tw == t.size[2]
    IN  IF RandomCropNoop(t, im)
        THEN Result("noop", e, tgt, ZeroBox, <<0, 0>>, <<p, p>>)
        ELSE IF e.w - tw < 0 \/ e.h - th < 0
        THEN Raise(im, tgt)
        ELSE Result("crop",
                    Crop(e, <<RInt(x1), RInt(y1), RInt(x1 + tw), RInt(y1 + th)>>),
                    ResetAbove(ClampNegative(Rebase(tgt, RInt(x1), RInt(y1))),
                               RInt(x1 + tw), RInt(y1 + th)),
                    <<RInt(x1), RInt(y1), RInt(x1 + tw), RInt(y1 + th)>>,
                    <<x1, y1>>, <<p - x1, p - y1>>)

\* -------------------------------------------------- RandomHorizontalFlip
FlipXPixelIndex(w, x) == RSub(RInt(w - 1), x)

\* w - target[:, 0]
FlipX(w, x) == RSub(RInt(w), x)

\* img.transpose(Image.FLIP_LEFT_RIGHT)
Transpose(im) == [im EXCEPT !.mirror = ~@]

\* flip: random.random() < 0.5
RandomHorizontalFlipCall(t, im, tgt, flip) ==
    IF flip
    THEN Result("flip", Transpose(im),
                [i \in 1..Len(tgt) |-> <<FlipX(im.w, tgt[i][1]), tgt[i][2]>>],
                ZeroBox, <<0, 0>>, <<0, 0>>)
    ELSE Result("noop", im, tgt, ZeroBox, <<0, 0>>, <<0, 0>>)

\* ---------------------------------------------------------- configuration
CropToTarget(p) ==
    [kind |-> "CropToTarget", isint |-> FALSE, size |-> <<0, 0>>, padding |-> p]

ScaleInt(s) ==
    [kind |-> "Scale", isint |-> TRUE, size |-> <<s, s>>, padding |-> 0]

ScalePair(sw, sh) ==
    [kind |-> "Scale", isint |-> FALSE, size |-> <<sw, sh>>, padding |-> 0]

RandomCrop(th, tw, p) ==
    [kind |-> "RandomCrop", isint |-> FALSE, size |-> <<th, tw>>, padding |-> p]

RandomHorizontalFlip ==
    [kind |-> "RandomHorizontalFlip", isint |-> FALSE, size |-> <<0, 0>>,
     padding |-> 0]

TransformConfigs ==
    {CropToTarget(p) : p \in 0..MaxPad}
    \cup {ScaleInt(s) : s \in 1..MaxSize}
    \cup {ScalePair(a, b) : a \in 1..MaxSize, b \in 1..MaxSize}
    \cup {RandomCrop(a, b, p) : a \in 1..MaxSize, b \in 1..MaxSize, p \in 0..MaxPad}
    \cup {RandomHorizontalFlip}

Pipelines == UNION {[1..n -> TransformConfigs] : n \in 0..MaxLen}

Images == [w : 1..MaxW, h : 1..MaxH, mirror : {FALSE}]

\* Keypoints inside the frame of an image, on a grid of 1/Grid pixel
Points(im) ==
    {<<Norm(a, Grid), Norm(b, Grid)>> : a \in 0..(im.w * Grid), b \in 0..(im.h * Grid)}

Targets(im) == UNION {[1..n -> Points(im)] : n \in 0..MaxPts}

P(x, y) == <<RInt(x), RInt(y)>>

Image(w, h) == [w |-> w, h |-> h, mirror |-> FALSE]

\* The scenarios of the specification, at their own sizes
Scenarios ==
    { [img |-> Image(512, 1024), target |-> <<P(256, 512)>>,
       transforms |-> <<ScaleInt(256)>>],
      [img |-> Image(224, 224), target |-> <<P(10, 20), P(224, 200)>>,
       transforms |-> <<RandomCrop(224, 224, 0)>>],
      [img |-> Image(200, 200), target |-> <<P(5, 5), P(50, 50)>>,
       transforms |-> <<CropToTarget(10)>>] }

\* --------------------------------------------------------------- Compose
Start(im, tgt, ts) ==
    /\ transforms = ts
    /\ img0 = im
    /\ target0 = tgt
    /\ callerImg = im
    /\ callerTarget = tgt
    /\ img = im
    /\ target = tgt
    /\ pc = 1
    /\ status = "running"
    /\ calls = <<>>
    /\ ret = <<>>

Init ==
    \/ \E im \in Images : \E tgt \in Targets(im) : \E ts \in Pipelines :
          Start(im, tgt, ts)
    \/ \E s \in Scenarios : Start(s.img, s.target, s.transforms)

LoopSkipsOne(i) == i + 2

\* for t in self.transforms: the next element
LoopNext(i) == i + 1

\* img, target = t(img, target) for the transform at position pc, where r is
\* what the call did.  Every transform updates the target array in place and
\* returns that same array, so the caller's array changes with it; images
\* are replaced, never written.
Invoke(r) ==
    /\ calls' = Append(calls, [idx |-> pc, t |-> transforms[pc],
                               img_in |-> img, tgt_in |-> target,
                               img_out |-> r.img, tgt_out |-> r.target,
                               branch |-> r.branch, box |-> r.box,
                               rnd |-> r.rnd, shift |-> r.shift])
    /\ callerTarget' = r.target
    /\ target' = r.target
    /\ IF r.branch = "raise"
       THEN /\ status' = "raised"
            /\ UNCHANGED <<img, pc>>
       ELSE /\ img' = r.img
            /\ pc' = LoopNext(pc)
            /\ UNCHANGED status
    /\ UNCHANGED <<transforms, img0, target0, callerImg, ret>>

Pending(kind) ==
    /\ status = "running"
    /\ pc <= Len(transforms)
    /\ transforms[pc].kind = kind

StepCropToTarget ==
    /\ Pending("CropToTarget")
    /\ Invoke(CropToTargetCall(transforms[pc], img, target))

StepScale ==
    /\ Pending("Scale")
    /\ Invoke(ScaleCall(transforms[pc], img, target))

StepRandomCrop ==
    /\ Pending("RandomCrop")
    /\ \E d \in RandomCropDraws(transforms[pc], img) :
          Invoke(RandomCropCall(transforms[pc], img, target, d[1], d[2]))

StepRandomHorizontalFlip ==
    /\ Pending("RandomHorizontalFlip")
    /\ \E flip \in BOOLEAN :
          Invoke(RandomHorizontalFlipCall(transforms[pc], img, target, flip))

\* return img, target
Return ==
    /\ status = "running"
    /\ pc > Len(transforms)
    /\ status' = "returned"
    /\ ret' = <<img, target>>
    /\ UNCHANGED <<transforms, img0, target0, callerImg, callerTarget,
                   img, target, pc, calls>>

Next ==
    \/ StepCropToTarget
    \/ StepScale
    \/ StepRandomCrop
    \/ StepRandomHorizontalFlip
    \/ Return

Spec == Init /\ [][Next]_vars

\* ================================================================ claims
Returned(kind) ==
    {i \in 1..Len(calls) : calls[i].t.kind = kind /\ calls[i].branch # "raise"}

InFrame(tgt, im) ==
    \A k \in 1..Len(tgt) :
        /\ RLe(Zero, tgt[k][1]) /\ RLe(tgt[k][1], RInt(im.w))
        /\ RLe(Zero, tgt[k][2]) /\ RLe(tgt[k][2], RInt(im.h))

\* C1: every Scale call that returns, in either size mode, maps each keypoint
\* (x, y) of a (w, h) image to (x * ow / w, y * oh / h), where (ow, oh) is the
\* size of the image it returns; size=256 on 512x1024 gives 256x512 and sends
\* (256, 512) to (128, 256).
C1_ScaleRatioLaw ==
    \A i \in Returned("Scale") :
        LET c == calls[i]
        IN  /\ Len(c.tgt_out) = Len(c.tgt_in)
            /\ \A k \in 1..Len(c.tgt_in) :
                  /\ RMul(c.tgt_out[k][1], RInt(c.img_in.w))
                        = RMul(c.tgt_in[k][1], RInt(c.img_out.w))
                  /\ RMul(c.tgt_out[k][2], RInt(c.img_in.h))
                        = RMul(c.tgt_in[k][2], RInt(c.img_out.h))
            /\ (c.t = ScaleInt(256) /\ c.img_in = Image(512, 1024)
                   /\ c.tgt_in = <<P(256, 512)>>)
                  => (c.img_out = Image(256, 512) /\ c.tgt_out = <<P(128, 256)>>)

\* C2: a CropToTarget, RandomCrop or Scale call whose input keypoints lie in
\* the frame of its input image returns keypoints that lie in the frame of
\* the image it returns.
C2_OutputInFrame ==
    \A i \in Returned("CropToTarget") \cup Returned("RandomCrop") \cup Returned("Scale") :
        InFrame(calls[i].tgt_in, calls[i].img_in)
            => InFrame(calls[i].tgt_out, calls[i].img_out)

\* C3: every RandomCrop call that returns moves each keypoint coordinate it
\* did not reset to 0 by exactly as much as it moved the image content
\* (padding minus the crop offset, on each axis).
C3_RandomCropFrameMatch ==
    \A i \in Returned("RandomCrop") :
        LET c == calls[i]
        IN  \A k \in 1..Len(c.tgt_out) : \A a \in 1..2 :
                c.tgt_out[k][a] # Zero
                    => c.tgt_out[k][a] = RAdd(c.tgt_in[k][a], RInt(c.shift[a]))

\* C4: when a transform of the pipeline raises, it is the last one invoked
\* and the caller's image and keypoint set are what they were at the call.
C4_FailFastNoPartial ==
    status = "raised"
        => /\ Len(calls) >= 1
           /\ calls[Len(calls)].branch = "raise"
           /\ \A i \in 1..(Len(calls) - 1) : calls[i].branch # "raise"
           /\ callerImg = img0
           /\ callerTarget = target0

\* C5: a RandomCrop call whose target window is wider or higher than the
\* (padded) image raises.
C5_RandomCropRaises ==
    \A i \in 1..Len(calls) :
        LET c == calls[i]
            pw == c.img_in.w + 2 * c.t.padding
            ph == c.img_in.h + 2 * c.t.padding
        IN  (c.t.kind = "RandomCrop" /\ (c.t.size[2] > pw \/ c.t.size[1] > ph))
                => c.branch = "raise"

\* C6: a RandomCrop call returns the pair without cropping only if the
\* (padded) image is tw wide and th high, and the keypoints are then
\* unchanged; every other call that returns gives a tw x th image cut at an
\* offset x1 in 0..w-tw, y1 in 0..h-th.
C6_RandomCropNoopExact ==
    \A i \in Returned("RandomCrop") :
        LET c == calls[i]
            pw == c.img_in.w + 2 * c.t.padding
            ph == c.img_in.h + 2 * c.t.padding
            th == c.t.size[1]
            tw == c.t.size[2]
        IN  /\ c.branch = "noop"
                => (pw = tw /\ ph = th /\ c.tgt_out = c.tgt_in
                    /\ c.img_out.w = pw /\ c.img_out.h = ph)
            /\ c.branch # "noop"
                => (/\ c.img_out.w = tw /\ c.img_out.h = th
                    /\ c.rnd[1] \in 0..(pw - tw)
                    /\ c.rnd[2] \in 0..(ph - th))

\* The bounding box of a keypoint set and whether the box padded by p lies
\* inside a w x h image, as the claim C7 states them.
BoxOf(tgt) ==
    LET xs == {tgt[k][1] : k \in 1..Len(tgt)}
        ys == {tgt[k][2] : k \in 1..Len(tgt)}
    IN  <<CHOOSE v \in xs : \A u \in xs : RLe(v, u),
          CHOOSE v \in ys : \A u \in ys : RLe(v, u),
          CHOOSE v \in xs : \A u \in xs : RLe(u, v),
          CHOOSE v \in ys : \A u \in ys : RLe(u, v)>>

Padded(b, p) ==
    <<RSub(b[1], RInt(p)), RSub(b[2], RInt(p)),
      RAdd(b[3], RInt(p)), RAdd(b[4], RInt(p))>>

Inside(b, w, h) ==
    /\ RLe(Zero, b[1]) /\ RLe(Zero, b[2])
    /\ RLe(b[3], RInt(w)) /\ RLe(b[4], RInt(h))

\* C7: the box CropToTarget computes is the bounding box padded by p on all
\* four sides when that padded box lies inside the image, and the unpadded
\* bounding box in every other case (for p > 0: padded if and only if it
\* fits); padding 10 around (5,5)-(50,50) in 200x200 leaves (5,5,50,50).
C7_PaddingAllOrNothing ==
    \A i \in Returned("CropToTarget") :
        LET c == calls[i]
            b == BoxOf(c.tgt_in)
            p == c.t.padding
            fits == Inside(Padded(b, p), c.img_in.w, c.img_in.h)
        IN  /\ fits => c.box = Padded(b, p)
            /\ ~fits => c.box = b
            /\ p > 0 => (c.box = Padded(b, p) <=> fits)
            /\ (p = 10 /\ c.img_in = Image(200, 200)
                   /\ c.tgt_in = <<P(5, 5), P(50, 50)>>)
                  => c.box = <<RInt(5), RInt(5), RInt(50), RInt(50)>>

\* A CropToTarget call with padding that fits at the high end of both axes
\* but not at the low end of x, and that cropped to the unpadded box.
C7_Witness ==
    \E i \in Returned("CropToTarget") :
        LET c == calls[i]
            b == BoxOf(c.tgt_in)
            p == c.t.padding
        IN  /\ p > 0
            /\ RLt(RSub(b[1], RInt(p)), Zero)
            /\ RLe(RAdd(b[3], RInt(p)), RInt(c.img_in.w))
            /\ RLe(RAdd(b[4], RInt(p)), RInt(c.img_in.h))
            /\ c.branch = "crop"
            /\ c.box = b
            /\ RLt(b[1], b[3])

\* C8: a RandomHorizontalFlip call on the flip branch maps every keypoint
\* (x, y) of a w-wide image to (w - x, y), keeps their number and order and
\* mirrors the image; on the other branch it returns the pair unchanged; two
\* consecutive flips give back the keypoints and the image they started from.
C8_FlipOnlyX ==
    /\ \A i \in Returned("RandomHorizontalFlip") :
          LET c == calls[i]
          IN  /\ c.branch = "flip"
                  => /\ Len(c.tgt_out) = Len(c.tgt_in)
                     /\ \A k \in 1..Len(c.tgt_in) :
                           /\ c.tgt_out[k][1] = RSub(RInt(c.img_in.w), c.tgt_in[k][1])
                           /\ c.tgt_out[k][2] = c.tgt_in[k][2]
                     /\ c.img_out.w = c.img_in.w
                     /\ c.img_out.h = c.img_in.h
                     /\ c.img_out.mirror = ~c.img_in.mirror
              /\ c.branch # "flip"
                  => (c.tgt_out = c.tgt_in /\ c.img_out = c.img_in)
    /\ \A i \in 1..(Len(calls) - 1) :
          (/\ calls[i].t.kind = "RandomHorizontalFlip" /\ calls[i].branch = "flip"
           /\ calls[i + 1].t.kind = "RandomHorizontalFlip"
           /\ calls[i + 1].branch = "flip")
              => (/\ calls[i + 1].tgt_out = calls[i].tgt_in
                  /\ calls[i + 1].img_out = calls[i].img_in)

\* Two consecutive flips, both on the flip branch, of a keypoint that the
\* first flip moved.
C8_Witness ==
    \E i \in 1..(Len(calls) - 1) :
        /\ calls[i].t.kind = "RandomHorizontalFlip" /\ calls[i].branch = "flip"
        /\ calls[i + 1].t.kind = "RandomHorizontalFlip"
        /\ calls[i + 1].branch = "flip"
        /\ Len(calls[i].tgt_in) >= 2
        /\ \E k \in 1..Len(calls[i].tgt_in) :
              calls[i].tgt_out[k][1] # calls[i].tgt_in[k][1]

\* C9: when CropToTarget is applied to a pair whose keypoints lie inside the
\* image and then again to its own output, the second application returns
\* that output unchanged: the same image size and the same keypoints.
C9_CropToTargetIdempotent ==
    \A i \in 1..(Len(calls) - 1) :
        (/\ calls[i].t.kind = "CropToTarget"
         /\ calls[i + 1].t = calls[i].t
         /\ calls[i].branch # "raise"
         /\ InFrame(calls[i].tgt_in, calls[i].img_in))
            => (/\ calls[i + 1].branch # "raise"
                /\ calls[i + 1].img_out = calls[i].img_out
                /\ calls[i + 1].tgt_out = calls[i].tgt_out)

\* C10: the transforms are invoked one at a time in the configured order,
\* the i-th call being of the i-th transform on the pair the (i-1)-th call
\* returned (the caller's pair for the first); a pipeline call that returns
\* has invoked every transform exactly once and returns the pair the last
\* one returned (the caller's pair when the list is empty).
C10_ComposeInOrder ==
    /\ Len(calls) <= Len(transforms)
    /\ \A i \in 1..Len(calls) :
          /\ calls[i].idx = i
          /\ calls[i].t = transforms[i]
          /\ calls[i].img_in = (IF i = 1 THEN img0 ELSE calls[i - 1].img_out)
          /\ calls[i].tgt_in = (IF i = 1 THEN target0 ELSE calls[i - 1].tgt_out)
          /\ i < Len(calls) => calls[i].branch # "raise"
    /\ status = "running" => (pc = Len(calls) + 1 /\ ret = <<>>)
    /\ status = "returned"
          => /\ Len(calls) = Len(transforms)
             /\ ret = (IF Len(calls) = 0 THEN <<img0, target0>>
                       ELSE <<calls[Len(calls)].img_out, calls[Len(calls)].tgt_out>>)

\* A returned call of a pipeline of two different transforms, the first of
\* which changed both the keypoints and the image.
C10_Witness ==
    /\ status = "returned"
    /\ Len(calls) >= 2
    /\ calls[1].t.kind # calls[2].t.kind
    /\ calls[2].tgt_in # target0
    /\ calls[2].img_in # img0
    /\ calls[2].tgt_out # calls[2].tgt_in
    /\ ret = <<calls[Len(calls)].img_out, calls[Len(calls)].tgt_out>>

====
